---- MODULE Spec2Model ----
(***************************************************************************)
(* Cart, pricing and order creation of the storefront.                     *)
(*                                                                         *)
(*   - the cart slice (state.cart.items) and the handlers that dispatch    *)
(*     to it (ProductCard.handleAddToCart,                                 *)
(*     ShoppingCart.handleQuantityChange, the Remove button);              *)
(*   - Checkout.calculateTotal / calculateSubtotal, in JavaScript Number   *)
(*     (IEEE-754 binary64) arithmetic;                                     *)
(*   - orderApi.createOrder and updateOrderStatus, and the 'orders'        *)
(*     collection they write;                                              *)
(*   - the store configuration: the cart saved to sessionStorage after     *)
(*     every dispatch and loaded when the store is built;                  *)
(*   - Checkout.handleCheckout, with createOrder in flight while the cart  *)
(*     is used.                                                            *)
(***************************************************************************)
EXTENDS Integers, Sequences, FiniteSets, TLC

(***************************************************************************)
(* JavaScript Number arithmetic.                                           *)
(*                                                                         *)
(* A non-negative Number x is held exactly as the natural x * 2^70,        *)
(* written in limbs of 14 bits, least significant first, without leading   *)
(* zero limbs (zero is << >>).  Every binary64 value that is 0 or at       *)
(* least 2^-18 and below 2^53 is such a natural with at most 53            *)
(* significant bits.  An operation computes the exact result and rounds    *)
(* it to 53 significant bits, ties to even, as IEEE-754 does.              *)
(***************************************************************************)
Base == 2^14

FracLimbs == 70 \div 14

Pow2(k) == 2^k

RECURSIVE Norm(_)
Norm(n) ==
  IF n = << >> THEN << >>
  ELSE IF n[Len(n)] = 0 THEN Norm(SubSeq(n, 1, Len(n) - 1))
  ELSE n

RECURSIVE BigOfInt(_)
BigOfInt(k) ==
  IF k = 0 THEN << >> ELSE << k % Base >> \o BigOfInt(k \div Base)

RECURSIVE IntOfBig(_)
IntOfBig(n) ==
  IF n = << >> THEN 0 ELSE n[1] + Base * IntOfBig(Tail(n))

Limb(n, i) == IF i <= Len(n) THEN n[i] ELSE 0

RECURSIVE AddFrom(_, _, _, _)
AddFrom(a, b, i, carry) ==
  IF i > Len(a) /\ i > Len(b)
  THEN (IF carry = 0 THEN << >> ELSE << carry >>)
  ELSE LET s == Limb(a, i) + Limb(b, i) + carry
       IN  << s % Base >> \o AddFrom(a, b, i + 1, s \div Base)

BigAdd(a, b) == Norm(AddFrom(a, b, 1, 0))

RECURSIVE MulSmallFrom(_, _, _, _)
MulSmallFrom(a, k, i, carry) ==
  IF i > Len(a)
  THEN BigOfInt(carry)
  ELSE LET s == a[i] * k + carry
       IN  << s % Base >> \o MulSmallFrom(a, k, i + 1, s \div Base)

\* a * k for a limb k (0 <= k < Base)
BigMulSmall(a, k) == Norm(MulSmallFrom(a, k, 1, 0))

BigShiftLimbs(n, k) ==
  IF n = << >> THEN << >> ELSE [i \in 1..k |-> 0] \o n

BigDropLimbs(n, k) ==
  IF Len(n) <= k THEN << >> ELSE SubSeq(n, k + 1, Len(n))

RECURSIVE MulFrom(_, _, _)
MulFrom(a, b, j) ==
  IF j > Len(b) THEN << >>
  ELSE BigAdd(BigShiftLimbs(BigMulSmall(a, b[j]), j - 1), MulFrom(a, b, j + 1))

BigMul(a, b) == MulFrom(a, b, 1)

\* long division of n by a small d (d < 2^16), from the top limb down:
\* the quotient limbs (least significant first) and the remainder
RECURSIVE DivSmallFrom(_, _, _, _)
DivSmallFrom(n, d, i, rem) ==
  IF i = 0 THEN [q |-> << >>, r |-> rem]
  ELSE LET cur  == rem * Base + n[i]
           rest == DivSmallFrom(n, d, i - 1, cur % d)
       IN  [q |-> rest.q \o << cur \div d >>, r |-> rest.r]

BigDivSmall(n, d) ==
  LET res == DivSmallFrom(n, d, Len(n), 0)
  IN  [q |-> Norm(res.q), r |-> res.r]

RECURSIVE IntBits(_)
IntBits(k) == IF k = 0 THEN 0 ELSE 1 + IntBits(k \div 2)

BitLen(n) ==
  IF n = << >> THEN 0 ELSE 14 * (Len(n) - 1) + IntBits(n[Len(n)])

Bit(n, i) == (Limb(n, (i \div 14) + 1) \div Pow2(i % 14)) % 2

\* n with its q lowest bits cleared
ClearLow(n, q) ==
  [i \in 1..Len(n) |->
     IF i <= q \div 14 THEN 0
     ELSE IF i = (q \div 14) + 1 THEN n[i] - (n[i] % Pow2(q % 14))
     ELSE n[i]]

\* some bit of n below bit q is set
AnyLow(n, q) ==
  \/ \E i \in 1..Len(n) : i <= q \div 14 /\ n[i] # 0
  \/ Limb(n, (q \div 14) + 1) % Pow2(q % 14) # 0

\* round to nearest, ties to even, at 53 significant bits
RoundToDouble(n) ==
  LET q == BitLen(n) - 53
  IN  IF q <= 0 THEN n
      ELSE LET up == Bit(n, q - 1) = 1 /\ (AnyLow(n, q - 1) \/ Bit(n, q) = 1)
               t  == Norm(ClearLow(n, q))
           IN  IF up
               THEN BigAdd(t, BigShiftLimbs(<< Pow2(q % 14) >>, q \div 14))
               ELSE t

\* the Number nearest to the rational num / den (a decimal literal, or the
\* quotient of two integers): one guard limb and a sticky bit for the
\* remainder, so that the rounding sees the exact quotient
NumRatio(num, den) ==
  LET d == BigDivSmall(BigShiftLimbs(BigOfInt(num), FracLimbs + 1), den)
      s == IF d.r = 0 \/ d.q = << >> THEN d.q
           ELSE [d.q EXCEPT ![1] = @ + (1 - (@ % 2))]
  IN  BigDropLimbs(RoundToDouble(s), 1)

NumOfInt(k) == BigShiftLimbs(BigOfInt(k), FracLimbs)

NumAdd(a, b) == RoundToDouble(BigAdd(a, b))

NumMul(a, b) == BigDropLimbs(RoundToDouble(BigMul(a, b)), FracLimbs)

\* Math.round: the integer nearest to x, halves upwards: floor(x + 1/2)
NumHalf == BigShiftLimbs(<< Pow2(13) >>, FracLimbs - 1)

MathRound(a) == IntOfBig(BigDropLimbs(BigAdd(a, NumHalf), FracLimbs))

(***************************************************************************)
(* Bounds of the model.                                                    *)
(***************************************************************************)
\* largest quantity a line item is taken to
MaxQty == 5

\* largest number of line items of a cart or order drawn as an input
MaxItems == 2

\* largest quantity of a line item drawn as an input
MaxLineQty == 3

\* largest quantity of a line item while the checkout is followed
MaxCheckoutQty == 1

\* largest number of documents in the 'orders' collection
MaxStored == 2

\* the getOrder calls of the OrderDetail component that are in flight at once
MaxInFlight == 2

(***************************************************************************)
(* Products.  A price is written as its decimal text in cents: 1050 is the *)
(* Number literal 10.50, NumRatio(1050, 100).                              *)
(***************************************************************************)
ProductIds == 1..5

Catalog(p) ==
  [ id    |-> p,
    title |-> CASE p = 1 -> "Item 1"
                [] p = 2 -> "Item 2"
                [] p = 3 -> "Wireless Headphones"
                [] p = 4 -> "Phone Case"
                [] OTHER -> "Item 5",
    price |-> CASE p = 1 -> 1050
                [] p = 2 -> 2500
                [] p = 3 -> 9999
                [] p = 4 -> 2499
                [] OTHER -> 500 ]

\* the products offered to the cart operations
Products == {1, 2, 3}

\* the quantities handed to the cart operations
QtyInputs == (-1)..MaxQty

\* the carts and product lists drawn as inputs of pricing and order creation:
\* up to MaxItems distinct products, in the order of the catalog, each with a
\* quantity of 1..MaxLineQty
InputCarts ==
  { c \in UNION { [1..n -> [id : ProductIds, quantity : 1..MaxLineQty]] :
                    n \in 0..MaxItems } :
      \A i, j \in 1..Len(c) : i < j => c[i].id < c[j].id }

CartOf(c) ==
  [i \in 1..Len(c) |->
     [id |-> c[i].id, title |-> Catalog(c[i].id).title,
      price |-> Catalog(c[i].id).price, quantity |-> c[i].quantity]]

\* user ids: one signed-in user, and no user id at all
NoUser == "undefined"

Users == {"user123", NoUser}

\* shipping addresses, as sequences of characters
Addresses ==
  { << "1", " ", "O", "a", "k", " ", "A", "v", "e" >>, << " ", " ", " " >>, << >> }

\* Date.now() / new Date(), and Math.random().toString(36).substr(2, 9)
Times == {1, 2}

Rands == {"k3x", "q7m"}

FirstTime == CHOOSE t \in Times : \A u \in Times : t <= u

VARIABLES
  items,     \* state.cart.items: the line items of the cart, in order
  prev,      \* items before the last cart operation
  last,      \* the last operation: its name, its arguments, what it reported
  storage,   \* sessionStorage: the text under the key 'cart', if any
  checkout,  \* the state of the Checkout component, and its call in flight
  snap,      \* the array a caller of snapshot() holds
  orderData, \* the CreateOrderData handed to createOrder
  orders,    \* the 'orders' collection: orderId -> stored document
  ret,       \* what the last pricing or order call returned
  detail     \* the state of the OrderDetail component, and its calls in flight

vars ==
  << items, prev, last, storage, checkout, snap, orderData, orders, ret,
     detail >>

(***************************************************************************)
(* The cart slice.                                                         *)
(***************************************************************************)
initialState == << >>

HasItem(its, p) == \E i \in 1..Len(its) : its[i].id = p

ItemIndex(its, p) == CHOOSE i \in 1..Len(its) : its[i].id = p

\* mutant of addItem: the quantity of an existing entry is overwritten
addItemOverwrite(its, product, quantity) ==
  IF quantity < 0 THEN its
  ELSE IF HasItem(its, product.id)
  THEN [its EXCEPT ![ItemIndex(its, product.id)].quantity = quantity]
  ELSE Append(its, [id |-> product.id, title |-> product.title,
                    price |-> product.price, quantity |-> quantity])

\* mutant of addItem: the guard on a negative quantity is missing
addItemUnguarded(its, product, quantity) ==
  IF HasItem(its, product.id)
  THEN [its EXCEPT ![ItemIndex(its, product.id)].quantity = @ + quantity]
  ELSE Append(its, [id |-> product.id, title |-> product.title,
                    price |-> product.price, quantity |-> quantity])

\* addItem(product, quantity = 1): a negative quantity is rejected; an
\* existing productId is merged by incrementing; else a line item is appended
addItem(its, product, quantity) ==
  IF quantity < 0 THEN its
  ELSE IF HasItem(its, product.id)
  THEN [its EXCEPT ![ItemIndex(its, product.id)].quantity = @ + quantity]
  ELSE Append(its, [id |-> product.id, title |-> product.title,
                    price |-> product.price, quantity |-> quantity])

\* removeItem(productId): removes the matching entry if present
removeItem(its, p) == SelectSeq(its, LAMBDA it : it.id # p)

\* updateQuantity({id, quantity}): overwrites the quantity of the entry
updateQuantity(its, p, quantity) ==
  [i \in 1..Len(its) |->
     IF its[i].id = p THEN [its[i] EXCEPT !.quantity = quantity] ELSE its[i]]

\* clearCart(): empties the cart
clearCart(its) == << >>

\* mutant of handleAddToCart: the product is pushed without looking for an
\* existing entry
handleAddToCartAppend(its, product) ==
  [items |-> Append(its, [id |-> product.id, title |-> product.title,
                          price |-> product.price, quantity |-> 1]),
   err |-> "none"]

\* ProductCard.handleAddToCart: dispatch(addItem(product))
handleAddToCart(its, product) ==
  [items |-> addItem(its, product, 1), err |-> "none"]

\* mutant of handleQuantityChange: the test is newQuantity < 0
handleQuantityChangeStrict(its, id, newQuantity) ==
  IF newQuantity < 0
  THEN [items |-> removeItem(its, id), err |-> "none"]
  ELSE [items |-> updateQuantity(its, id, newQuantity), err |-> "none"]

\* mutant of handleQuantityChange: a negative quantity is refused with an error
handleQuantityChangeThrows(its, id, newQuantity) ==
  IF newQuantity < 0
  THEN [items |-> its, err |-> "ValidationError"]
  ELSE IF newQuantity = 0
  THEN [items |-> removeItem(its, id), err |-> "none"]
  ELSE [items |-> updateQuantity(its, id, newQuantity), err |-> "none"]

\* mutant of handleQuantityChange: the new quantity is added to the old one
handleQuantityChangeDelta(its, id, newQuantity) ==
  IF newQuantity <= 0
  THEN [items |-> removeItem(its, id), err |-> "none"]
  ELSE [items |-> [i \in 1..Len(its) |->
                     IF its[i].id = id
                     THEN [its[i] EXCEPT !.quantity = @ + newQuantity]
                     ELSE its[i]],
        err |-> "none"]

\* ShoppingCart.handleQuantityChange(id, newQuantity)
handleQuantityChange(its, id, newQuantity) ==
  IF newQuantity <= 0
  THEN [items |-> removeItem(its, id), err |-> "none"]
  ELSE [items |-> updateQuantity(its, id, newQuantity), err |-> "none"]

NoOp == [op |-> "none", id |-> 0, qty |-> 0, err |-> "none"]

NoRet == [op |-> "none"]

NoData == [userId |-> "", products |-> << >>, shippingAddress |-> ""]

WithinQty(its) == \A i \in 1..Len(its) : its[i].quantity <= MaxQty

\* JSON.stringify(state.cart): the text as a sequence of tokens, the commas,
\* colons and quotes left out.  The text of a Number is the decimal that reads
\* back as that Number.
NumberText(n) == ToString(n)

\* mutant of StringifyItems: the last entry is written first
RECURSIVE StringifyItemsReversed(_, _)
StringifyItemsReversed(its, n) ==
  IF n = 0 THEN << >>
  ELSE << "{", "id", NumberText(its[n].id), "title", its[n].title,
          "price", NumberText(its[n].price),
          "quantity", NumberText(its[n].quantity), "}" >>
       \o StringifyItemsReversed(its, n - 1)

RECURSIVE StringifyItems(_, _)
StringifyItems(its, n) ==
  IF n = 0 THEN << >>
  ELSE StringifyItems(its, n - 1) \o
       << "{", "id", NumberText(its[n].id), "title", its[n].title,
          "price", NumberText(its[n].price),
          "quantity", NumberText(its[n].quantity), "}" >>

JSONstringify(cart) ==
  << "{", "items", "[" >> \o StringifyItems(cart.items, Len(cart.items)) \o << "]", "}" >>

\* the Numbers a text of the cart can hold
JsonNumbers ==
  ProductIds \cup (0..MaxQty) \cup {Catalog(p).price : p \in ProductIds}

ParseNumber(text) == CHOOSE n \in JsonNumbers : NumberText(n) = text

\* the value of a key of the object that starts at token i
RECURSIVE ValueAt(_, _, _)
ValueAt(toks, i, key) ==
  IF toks[i] = key THEN toks[i + 1] ELSE ValueAt(toks, i + 2, key)

RECURSIVE ObjectEnd(_, _)
ObjectEnd(toks, i) == IF toks[i] = "}" THEN i ELSE ObjectEnd(toks, i + 2)

RECURSIVE ParseItems(_, _)
ParseItems(toks, i) ==
  IF toks[i] = "]" THEN << >>
  ELSE << [id       |-> ParseNumber(ValueAt(toks, i + 1, "id")),
           title    |-> ValueAt(toks, i + 1, "title"),
           price    |-> ParseNumber(ValueAt(toks, i + 1, "price")),
           quantity |-> ParseNumber(ValueAt(toks, i + 1, "quantity"))] >>
       \o ParseItems(toks, ObjectEnd(toks, i + 1) + 1)

\* JSON.parse of such a text: the object with its items array
JSONparse(toks) == [items |-> ParseItems(toks, 4)]

\* sessionStorage: the key 'cart' is absent, or holds a text
Absent == [present |-> FALSE]

setItem(text) == [present |-> TRUE, text |-> text]

\* store.subscribe: every dispatch is followed by
\* sessionStorage.setItem('cart', JSON.stringify(state.cart))
saveState(cart) == setItem(JSONstringify(cart))

\* loadState(): undefined when the key is absent, else {cart: JSON.parse(text)}
loadState(stored) ==
  IF stored.present
  THEN [defined |-> TRUE, cart |-> JSONparse(stored.text)]
  ELSE [defined |-> FALSE]

\* configureStore({reducer, preloadedState}): the state of the new store
configureStore(preloadedState) ==
  IF preloadedState.defined THEN preloadedState.cart ELSE [items |-> initialState]

\* what no caller holds yet
NoSnap == [held |-> FALSE]

\* An array handed to a caller: its entries, whether it is the array of the
\* store itself (live), and for each entry whether it is the object the store
\* holds (shared) or an object of its own.
\* mutant of snapshot: a new array of the entries the store holds
snapshotShallow(its) ==
  [held |-> TRUE, live |-> FALSE, shared |-> [i \in 1..Len(its) |-> TRUE],
   items |-> its]

\* snapshot(): a defensive copy of the current items
snapshot(its) ==
  [held |-> TRUE, live |-> FALSE, shared |-> [i \in 1..Len(its) |-> FALSE],
   items |-> [i \in 1..Len(its) |-> its[i]]]

\* restoring a snapshot into a fresh CartStore: the items of the new store
restore(s) == [i \in 1..Len(s.items) |-> s.items[i]]

\* the caller takes a snapshot
Snapshot ==
  /\ snap = NoSnap
  /\ snap' = snapshot(items)
  /\ prev' = items
  /\ last' = [op |-> "snapshot", id |-> 0, qty |-> 0, err |-> "none"]
  /\ UNCHANGED << detail, items, storage, checkout, orderData, orders, ret >>

\* a write through an array: the store sees it when the array is its own
ThroughArray(s, new) == IF s.live THEN new ELSE items

\* the caller pushes an entry onto the array it holds
PushToSnapshot(p) ==
  /\ snap.held
  /\ last.op = "snapshot"
  /\ LET entry == [id |-> p, title |-> Catalog(p).title,
                    price |-> Catalog(p).price, quantity |-> 1]
     IN  /\ snap' = [snap EXCEPT !.items = Append(@, entry),
                                 !.shared = Append(@, FALSE)]
         /\ items' = ThroughArray(snap, Append(items, entry))
  /\ prev' = items
  /\ last' = [op |-> "snapshotPush", id |-> p, qty |-> 1, err |-> "none"]
  /\ UNCHANGED << detail, storage, checkout, orderData, orders, ret >>

\* the caller removes the entry at index k of the array it holds
RemoveFromSnapshot(k) ==
  /\ snap.held
  /\ last.op = "snapshot"
  /\ k \in 1..Len(snap.items)
  /\ LET cut(a) == SubSeq(a, 1, k - 1) \o SubSeq(a, k + 1, Len(a))
     IN  /\ snap' = [snap EXCEPT !.items = cut(@), !.shared = cut(@)]
         /\ items' = ThroughArray(snap, cut(items))
  /\ prev' = items
  /\ last' = [op |-> "snapshotRemove", id |-> snap.items[k].id, qty |-> 0,
               err |-> "none"]
  /\ UNCHANGED << detail, storage, checkout, orderData, orders, ret >>

\* the caller sets the quantity of the entry at index k of the array it
\* holds: the store sees it when the entry is the object the store holds
EditSnapshotEntry(k, q) ==
  /\ snap.held
  /\ last.op = "snapshot"
  /\ k \in 1..Len(snap.items)
  /\ q # snap.items[k].quantity
  /\ snap' = [snap EXCEPT !.items[k].quantity = q]
  /\ items' = IF snap.shared[k]
               THEN [i \in 1..Len(items) |->
                       IF items[i].id = snap.items[k].id
                       THEN [items[i] EXCEPT !.quantity = q] ELSE items[i]]
               ELSE items
  /\ prev' = items
  /\ last' = [op |-> "snapshotEdit", id |-> snap.items[k].id, qty |-> q,
               err |-> "none"]
  /\ UNCHANGED << detail, storage, checkout, orderData, orders, ret >>

\* the Checkout component as it is mounted
InitialCheckout ==
  [user |-> "user123", shippingAddress |-> << >>, loading |-> FALSE,
   error |-> "", success |-> [text |-> ""], requests |-> << >>]

\* no order id: the '' an OrderDetail is given when no order is selected
NoOrderId == << >>

\* the OrderDetail component as it is mounted: order null, loading true
InitialDetail ==
  [orderId |-> NoOrderId, order |-> << >>, loading |-> TRUE, error |-> "",
   requests |-> << >>]

\* mutant of CartStep: the stored orders hold the array of the cart
CartStepAliased(new, op) ==
  /\ WithinQty(new)
  /\ items' = new
  /\ prev' = items
  /\ last' = op
  /\ storage' = saveState([items |-> new])
  /\ orders' =
       {[o EXCEPT !.products =
           [i \in 1..Len(new) |->
              [productId |-> ToString(new[i].id), name |-> new[i].title,
               price |-> new[i].price, quantity |-> new[i].quantity]]] :
          o \in orders}
  /\ UNCHANGED << detail, checkout, snap, orderData, ret >>

\* a dispatch to the store, and the subscriber that saves the new state
CartStep(new, op) ==
  /\ WithinQty(new)
  /\ items' = new
  /\ prev' = items
  /\ last' = op
  /\ storage' = saveState([items |-> new])
  /\ UNCHANGED << detail, checkout, snap, orderData, orders, ret >>

\* dispatch(addItem(product, quantity))
AddItem(p, q) ==
  CartStep(addItem(items, Catalog(p), q),
           [op |-> "addItem", id |-> p, qty |-> q, err |-> "none"])

\* the Add to Cart button of a product card
HandleAddToCart(p) ==
  LET r == handleAddToCart(items, Catalog(p))
  IN  CartStep(r.items, [op |-> "handleAddToCart", id |-> p, qty |-> 1, err |-> r.err])

\* mutant of RemoveItem: the button empties the cart
RemoveItemClears(p) ==
  CartStep(clearCart(items),
           [op |-> "removeItem", id |-> p, qty |-> 0, err |-> "none"])

\* dispatch(removeItem(id)): the Remove button, or any other caller
RemoveItem(p) ==
  CartStep(removeItem(items, p),
           [op |-> "removeItem", id |-> p, qty |-> 0, err |-> "none"])

\* setQuantity: the - and + buttons call it with quantity - 1 and quantity + 1
SetQuantity(p, q) ==
  LET r == handleQuantityChange(items, p, q)
  IN  CartStep(r.items, [op |-> "setQuantity", id |-> p, qty |-> q, err |-> r.err])

\* dispatch(clearCart()); sessionStorage.removeItem('cart')
ClearCart ==
  /\ items' = clearCart(items)
  /\ prev' = items
  /\ last' = [op |-> "clear", id |-> 0, qty |-> 0, err |-> "none"]
  /\ storage' = Absent
  /\ UNCHANGED << detail, checkout, snap, orderData, orders, ret >>

\* the page is loaded again: the store is built from loadState(), and the
\* components are mounted anew
Reload ==
  /\ items' = configureStore(loadState(storage)).items
  /\ prev' = items
  /\ last' = [op |-> "reload", id |-> 0, qty |-> 0, err |-> "none"]
  /\ checkout' = InitialCheckout
  /\ detail' = InitialDetail
  /\ snap' = NoSnap
  /\ UNCHANGED << storage, orderData, orders, ret >>

(***************************************************************************)
(* Checkout: the totals of the cart.                                       *)
(***************************************************************************)
\* cartItems.reduce((sum, item) => sum + (item.price * item.quantity), 0)
RECURSIVE SumFrom(_, _)
SumFrom(its, n) ==
  IF n = 0 THEN NumOfInt(0)
  ELSE NumAdd(SumFrom(its, n - 1),
              NumMul(NumRatio(its[n].price, 100), NumOfInt(its[n].quantity)))

calculateSubtotal(its) == SumFrom(its, Len(its))

\* const tax = subtotal * 0.085
TaxOf(subtotal) == NumMul(subtotal, NumRatio(85, 1000))

\* mutant of RoundToCents: Math.floor in place of Math.round
RoundToCentsFloor(x) ==
  NumRatio(IntOfBig(BigDropLimbs(NumMul(x, NumOfInt(100)), FracLimbs)), 100)

\* Math.round(x * 100) / 100
RoundToCents(x) == NumRatio(MathRound(NumMul(x, NumOfInt(100))), 100)

calculateTotal(its) ==
  LET subtotal == calculateSubtotal(its)
      tax      == TaxOf(subtotal)
  IN  [subtotal |-> subtotal, tax |-> tax,
       total |-> RoundToCents(NumAdd(subtotal, tax))]

(***************************************************************************)
(* Order creation.                                                         *)
(***************************************************************************)
\* String.prototype.trim, on a sequence of characters
RECURSIVE TrimStart(_)
TrimStart(a) ==
  IF a # << >> /\ Head(a) = " " THEN TrimStart(Tail(a)) ELSE a

RECURSIVE TrimEnd(_)
TrimEnd(a) ==
  IF a # << >> /\ a[Len(a)] = " " THEN TrimEnd(SubSeq(a, 1, Len(a) - 1)) ELSE a

Trim(a) == TrimEnd(TrimStart(a))

\* cartItems.map(item => ({productId: item.id.toString(), name: item.title,
\*                         price: item.price, quantity: item.quantity}))
OrderItemsOf(its) ==
  [i \in 1..Len(its) |->
     [productId |-> ToString(its[i].id), name |-> its[i].title,
      price |-> its[i].price, quantity |-> its[i].quantity]]

\* `order_${Date.now()}_${Math.random().toString(36).substr(2, 9)}`
OrderIdOf(now, rnd) == << "order", now, rnd >>

\* mutant of OrderTotalPrice: the tax of the checkout is added
OrderTotalPriceTaxed(products) ==
  LET subtotal == SumFrom(products, Len(products))
  IN  RoundToCents(NumAdd(subtotal, TaxOf(subtotal)))

\* orderData.products.reduce((total, p) => total + (p.price * p.quantity), 0),
\* then Math.round(totalPrice * 100) / 100
OrderTotalPrice(products) == RoundToCents(SumFrom(products, Len(products)))

\* mutant of NewOrder: the order starts as confirmed
NewOrderConfirmed(data, now, rnd, createdAt) ==
  [orderId         |-> OrderIdOf(now, rnd),
   userId          |-> data.userId,
   products        |-> data.products,
   totalPrice      |-> OrderTotalPrice(data.products),
   status          |-> "confirmed",
   createdAt       |-> createdAt,
   shippingAddress |-> data.shippingAddress]

\* the order object createOrder builds
NewOrder(data, now, rnd, createdAt) ==
  [orderId         |-> OrderIdOf(now, rnd),
   userId          |-> data.userId,
   products        |-> data.products,
   totalPrice      |-> OrderTotalPrice(data.products),
   status          |-> "pending",
   createdAt       |-> createdAt,
   shippingAddress |-> data.shippingAddress]

\* mutant of SetDoc: the collection is left with the one document
SetDocOnly(store, order) == {order}

\* setDoc(doc(db, 'orders', orderId), order): the document of that id is replaced
SetDoc(store, order) ==
  {d \in store : d.orderId # order.orderId} \cup {order}

\* what setDoc rejects with: nothing when the write is stored
RejectionOf(stored) == IF stored THEN "none" ELSE "Error"

\* mutant of createOrderAwait: the order is returned and nothing is written
createOrderAwaitPure(order, stored) ==
  [ret    |-> [op |-> "createOrder", err |-> "none", rejected |-> "none",
               order |-> order, handed |-> << >>],
   orders |-> orders]

\* mutant of createOrderAwait: a rejected write is logged and the order is
\* returned all the same
createOrderAwaitSwallows(order, stored) ==
  IF stored
  THEN [ret    |-> [op |-> "createOrder", err |-> "none",
                    rejected |-> RejectionOf(stored),
                    order |-> order, handed |-> << order >>],
        orders |-> SetDoc(orders, order)]
  ELSE [ret    |-> [op |-> "createOrder", err |-> "none",
                    rejected |-> RejectionOf(stored),
                    order |-> order, handed |-> << order >>],
        orders |-> orders]

\* await setDoc(...): it resolves (stored) and the order is returned, or it
\* rejects and the error is logged and thrown again
createOrderAwait(order, stored) ==
  IF stored
  THEN [ret    |-> [op |-> "createOrder", err |-> "none",
                    rejected |-> RejectionOf(stored),
                    order |-> order, handed |-> << order >>],
        orders |-> SetDoc(orders, order)]
  ELSE [ret    |-> [op |-> "createOrder", err |-> RejectionOf(stored),
                    rejected |-> RejectionOf(stored),
                    handed |-> << order >>],
        orders |-> orders]

\* createOrder(orderData)
createOrder(data, now, rnd, createdAt, stored) ==
  createOrderAwait(NewOrder(data, now, rnd, createdAt), stored)

CalculateTotal ==
  /\ ret = NoRet
  /\ ret' = [op |-> "calculateTotal"] @@ calculateTotal(items)
  /\ UNCHANGED << detail, items, prev, last, storage, checkout, snap, orderData, orders >>

CalculateSubtotal ==
  /\ ret = NoRet
  /\ ret' = [op |-> "calculateSubtotal", subtotal |-> calculateSubtotal(items)]
  /\ UNCHANGED << detail, items, prev, last, storage, checkout, snap, orderData, orders >>

CreateOrder ==
  /\ ret = NoRet
  /\ \E now \in Times, rnd \in Rands, stored \in BOOLEAN :
       \E createdAt \in {t \in Times : t >= now} :
         LET r == createOrder(orderData, now, rnd, createdAt, stored)
         IN  /\ ret' = r.ret
             /\ orders' = r.orders
  /\ UNCHANGED << detail, items, prev, last, storage, checkout, snap, orderData >>

(***************************************************************************)
(* The order API on the 'orders' collection.                               *)
(***************************************************************************)
Statuses == {"pending", "confirmed", "shipped", "delivered", "cancelled"}

OrderIds == {OrderIdOf(now, rnd) : now \in Times, rnd \in Rands}

\* the order data handed to the API
StoreData ==
  {[userId |-> "user123",
    products |-> OrderItemsOf(CartOf(<< [id |-> 1, quantity |-> 1] >>)),
    shippingAddress |-> << "1", " ", "O", "a", "k", " ", "A", "v", "e" >>]}

HasDoc(store, orderId) == \E d \in store : d.orderId = orderId

DocOf(store, orderId) == CHOOSE d \in store : d.orderId = orderId

\* mutant of UpdateDoc: the document is not selected by its id
UpdateDocAll(store, orderId, status) ==
  {[d EXCEPT !.status = status] : d \in store}

\* updateDoc(doc(db, 'orders', orderId), {status}): the field of that
\* document is replaced
UpdateDoc(store, orderId, status) ==
  {IF d.orderId = orderId THEN [d EXCEPT !.status = status] ELSE d : d \in store}

StatusOf(store, orderId) ==
  IF HasDoc(store, orderId) THEN DocOf(store, orderId).status ELSE "missing"

\* mutant of updateOrderStatus: a change the order lifecycle does not list is
\* refused
updateOrderStatusChecked(orderId, status, accepted) ==
  LET before == StatusOf(orders, orderId)
      listed == \/ before = status
                \/ << before, status >> \in
                     {<< "pending", "confirmed" >>, << "confirmed", "shipped" >>,
                      << "shipped", "delivered" >>, << "pending", "cancelled" >>,
                      << "confirmed", "cancelled" >>}
  IN  IF accepted /\ HasDoc(orders, orderId) /\ listed
      THEN [ret    |-> [op |-> "updateOrderStatus", orderId |-> orderId,
                        status |-> status, accepted |-> accepted,
                        before |-> before, err |-> "none", result |-> TRUE],
            orders |-> UpdateDoc(orders, orderId, status)]
      ELSE [ret    |-> [op |-> "updateOrderStatus", orderId |-> orderId,
                        status |-> status, accepted |-> accepted,
                        before |-> before, err |-> "Error", result |-> FALSE],
            orders |-> orders]

\* updateOrderStatus(orderId, status): updateDoc resolves when the document
\* exists and the write is accepted, and true is returned; else it rejects and
\* the error is logged and thrown again
updateOrderStatus(orderId, status, accepted) ==
  LET before == StatusOf(orders, orderId)
  IN  IF accepted /\ HasDoc(orders, orderId)
      THEN [ret    |-> [op |-> "updateOrderStatus", orderId |-> orderId,
                        status |-> status, accepted |-> accepted,
                        before |-> before, err |-> "none", result |-> TRUE],
            orders |-> UpdateDoc(orders, orderId, status)]
      ELSE [ret    |-> [op |-> "updateOrderStatus", orderId |-> orderId,
                        status |-> status, accepted |-> accepted,
                        before |-> before, err |-> "Error", result |-> FALSE],
            orders |-> orders]

\* a call of createOrder on the collection as it stands
CreateOrderCall(data) ==
  /\ Cardinality(orders) < MaxStored
  /\ \E now \in Times, rnd \in Rands :
       LET order == NewOrder(data, now, rnd, now)
       IN  \E stored \in BOOLEAN :
             LET r == createOrderAwait(order, stored)
             IN  /\ ret' = r.ret
                 /\ orders' = r.orders
  /\ orderData' = data
  /\ UNCHANGED << detail, items, prev, last, storage, checkout, snap >>

\* a call of updateOrderStatus
UpdateOrderStatus(orderId, status, accepted) ==
  LET r == updateOrderStatus(orderId, status, accepted)
  IN  /\ ret' = r.ret
      /\ orders' = r.orders
      /\ UNCHANGED << detail, items, prev, last, storage, checkout, snap, orderData >>

\* Firestore keeps a Date as a Timestamp of seconds and nanoseconds
TimestampOf(date) ==
  [seconds |-> date \div 1000, nanoseconds |-> (date % 1000) * 1000000]

\* mutant of toDate: the nanoseconds are dropped
toDateSeconds(ts) == ts.seconds * 1000

\* Timestamp.toDate(): the Date of the same instant, in milliseconds
toDate(ts) == ts.seconds * 1000 + ts.nanoseconds \div 1000000

\* snapshot.data() of a stored document: createdAt reads back as a Timestamp
DataOf(d) == [d EXCEPT !.createdAt = TimestampOf(@)]

\* getOrder(orderId): getDoc either rejects, and the error is logged and
\* thrown again, or resolves; an existing document is returned with createdAt
\* converted back to a Date, a missing one gives null (the empty result)
getOrder(orderId, fetched) ==
  IF ~fetched
  THEN [op |-> "getOrder", orderId |-> orderId, err |-> "Error",
        result |-> << >>]
  ELSE IF HasDoc(orders, orderId)
       THEN LET data == DataOf(DocOf(orders, orderId))
            IN  [op |-> "getOrder", orderId |-> orderId, err |-> "none",
                 result |-> << [data EXCEPT !.createdAt = toDate(@)] >>]
       ELSE [op |-> "getOrder", orderId |-> orderId, err |-> "none",
             result |-> << >>]

\* a call of getOrder
GetOrder(orderId, fetched) ==
  /\ ret' = getOrder(orderId, fetched)
  /\ UNCHANGED << detail, items, prev, last, storage, checkout, snap, orderData,
                  orders >>

\* where('userId', '==', userId): the documents of that user
Where(store, userId) == {d \in store : d.userId = userId}

\* orderBy('createdAt', 'desc'): the documents from the newest to the oldest;
\* among documents of one instant the order is some fixed one
RECURSIVE OrderByDesc(_)
OrderByDesc(docs) ==
  IF docs = {} THEN << >>
  ELSE LET newest == CHOOSE d \in docs :
                       \A e \in docs : e.createdAt <= d.createdAt
       IN  << newest >> \o OrderByDesc(docs \ {newest})

\* mutant of getUserOrders: the query has no where clause
getUserOrdersUnfiltered(userId, fetched) ==
  IF ~fetched
  THEN [op |-> "getUserOrders", userId |-> userId, err |-> "Error",
        result |-> << >>]
  ELSE LET docs == OrderByDesc(orders)
       IN  [op |-> "getUserOrders", userId |-> userId, err |-> "none",
            result |-> [i \in 1..Len(docs) |->
                          LET data == DataOf(docs[i])
                          IN  [data EXCEPT !.orderId = docs[i].orderId,
                                           !.createdAt = toDate(@)]]]

\* getUserOrders(userId): getDocs either rejects, and the error is logged and
\* thrown again, or resolves with the documents of the query, each mapped to
\* an order with its document id and createdAt converted back to a Date
getUserOrders(userId, fetched) ==
  IF ~fetched
  THEN [op |-> "getUserOrders", userId |-> userId, err |-> "Error",
        result |-> << >>]
  ELSE LET docs == OrderByDesc(Where(orders, userId))
       IN  [op |-> "getUserOrders", userId |-> userId, err |-> "none",
            result |-> [i \in 1..Len(docs) |->
                          LET data == DataOf(docs[i])
                          IN  [data EXCEPT !.orderId = docs[i].orderId,
                                           !.createdAt = toDate(@)]]]

\* a call of getUserOrders
GetUserOrders(userId, fetched) ==
  /\ ret' = getUserOrders(userId, fetched)
  /\ UNCHANGED << detail, items, prev, last, storage, checkout, snap, orderData,
                  orders >>

\* the users whose orders are stored and queried
QueryUsers == {"user123", "user456"}

\* the order data of the calls that fill the collection
QueryData ==
  {[userId |-> u,
    products |-> OrderItemsOf(CartOf(<< [id |-> 1, quantity |-> 1] >>)),
    shippingAddress |-> << "1", " ", "O", "a", "k", " ", "A", "v", "e" >>] :
     u \in QueryUsers}

(***************************************************************************)
(* The OrderDetail component.                                              *)
(***************************************************************************)
\* the order ids the component is given
DetailIds == {OrderIdOf(FirstTime, rnd) : rnd \in Rands}

\* a sequence without its k-th element
WithoutAt(seq, k) ==
  [i \in 1..(Len(seq) - 1) |-> IF i < k THEN seq[i] ELSE seq[i + 1]]

\* the parent renders the component with another orderId: the effect on
\* [orderId] runs, and for a non-empty id fetchOrderDetail starts: loading is
\* set, the error is reset and getOrder(orderId) is called
SetOrderId(orderId) ==
  /\ orderId # detail.orderId
  /\ Len(detail.requests) < MaxInFlight
  /\ detail' = IF orderId = NoOrderId
               THEN [detail EXCEPT !.orderId = orderId]
               ELSE [detail EXCEPT !.orderId = orderId, !.loading = TRUE,
                                   !.error = "",
                                   !.requests = Append(@, orderId)]
  /\ UNCHANGED << items, prev, last, storage, checkout, snap, orderData,
                  orders, ret >>

\* fetchOrderDetail, after the await: what it sets when getOrder has
\* returned an order or null, and in the catch block when it has thrown
fetchOrderDetailDone(result) ==
  [order   |-> IF result.err = "none" THEN result.result ELSE detail.order,
   error   |-> IF result.err # "none"
               THEN "Failed to load order details. Please try again."
               ELSE IF result.result = << >> THEN "Order not found"
               ELSE detail.error,
   loading |-> FALSE]

\* one of the getOrder calls in flight settles, in any order, and its
\* fetchOrderDetail runs to its end
SettleGetOrder(k, fetched) ==
  /\ k \in 1..Len(detail.requests)
  /\ LET r == getOrder(detail.requests[k], fetched)
         d == fetchOrderDetailDone(r)
     IN  /\ ret' = r
         /\ detail' = [detail EXCEPT !.order = d.order, !.error = d.error,
                                     !.loading = d.loading,
                                     !.requests = WithoutAt(@, k)]
  /\ UNCHANGED << items, prev, last, storage, checkout, snap, orderData,
                  orders >>

(***************************************************************************)
(* The Checkout component.                                                 *)
(***************************************************************************)
\* validateForm(): the error it sets, '' when the form is valid
validateForm(user, shippingAddress, cartItems) ==
  IF user = NoUser THEN "Please log in to complete your order"
  ELSE IF Trim(shippingAddress) = << >> THEN "Please enter a shipping address"
  ELSE IF Len(cartItems) = 0 THEN "Your cart is empty"
  ELSE ""

\* mutant of PlaceOrderEnabled: the button is not disabled while loading
PlaceOrderEnabledWhileLoading ==
  /\ checkout.user # NoUser
  /\ Len(items) > 0
  /\ Trim(checkout.shippingAddress) # << >>

\* the Place Order button is rendered and not disabled
PlaceOrderEnabled ==
  /\ checkout.user # NoUser
  /\ Len(items) > 0
  /\ ~checkout.loading
  /\ Trim(checkout.shippingAddress) # << >>

\* the textarea of the shipping address: onChange
SetShippingAddress(a) ==
  /\ checkout.user # NoUser
  /\ Len(items) > 0
  /\ a # checkout.shippingAddress
  /\ checkout' = [checkout EXCEPT !.shippingAddress = a]
  /\ prev' = items
  /\ last' = [op |-> "setShippingAddress", id |-> 0, qty |-> 0, err |-> "none"]
  /\ UNCHANGED << detail, items, storage, snap, orderData, orders, ret >>

\* handleCheckout, up to the await: the messages are cleared, the form is
\* validated, and createOrder is called with the items of the cart; it builds
\* the order and awaits setDoc.  One call of createOrder is followed.
HandleCheckout ==
  /\ PlaceOrderEnabled
  /\ ret = NoRet
  /\ LET invalid == validateForm(checkout.user, checkout.shippingAddress, items)
         data == [userId          |-> checkout.user,
                  products        |-> OrderItemsOf(items),
                  shippingAddress |-> Trim(checkout.shippingAddress)]
     IN  IF invalid # ""
         THEN /\ checkout' = [checkout EXCEPT !.error = invalid,
                                              !.success = [text |-> ""]]
              /\ UNCHANGED orderData
         ELSE \E now \in {FirstTime}, rnd \in Rands :
                \E createdAt \in {now} :
                  /\ checkout' =
                       [checkout EXCEPT
                          !.error = "", !.success = [text |-> ""],
                          !.loading = TRUE,
                          !.requests =
                            Append(@, NewOrder(data, now, rnd, createdAt))]
                  /\ orderData' = data
  /\ prev' = items
  /\ last' = [op |-> "handleCheckout", id |-> 0, qty |-> 0, err |-> "none"]
  /\ UNCHANGED << detail, items, storage, snap, orders, ret >>

\* mutant of handleCheckoutDone: the 'cart' key is removed and clearCart() is
\* not dispatched
handleCheckoutDoneKeepsCart(result) ==
  [items |-> items, storage |-> Absent,
   success |-> [text |-> "Successful order! Will be shipped ASAP"],
   error |-> "", shippingAddress |-> << >>, loading |-> FALSE]

\* handleCheckout, after the await: what it sets when createOrder has
\* returned the order, and in the catch block when it has thrown
handleCheckoutDone(result) ==
  IF result.err = "none"
  THEN [items |-> clearCart(items), storage |-> Absent,
        success |-> [text |-> "Order has been placed successfully!",
                     orderId |-> result.order.orderId,
                     total |-> result.order.totalPrice],
        error |-> "", shippingAddress |-> << >>, loading |-> FALSE]
  ELSE [items |-> clearCart(items), storage |-> Absent,
        success |-> [text |-> "Successful order! Will be shipped ASAP"],
        error |-> "", shippingAddress |-> << >>, loading |-> FALSE]

\* setDoc resolves or rejects; createOrder returns or throws, and
\* handleCheckout runs to its end
SettleCheckout(stored) ==
  /\ checkout.requests # << >>
  /\ LET r  == createOrderAwait(Head(checkout.requests), stored)
         d  == handleCheckoutDone(r.ret)
     IN  /\ ret' = r.ret
         /\ orders' = r.orders
         /\ items' = d.items
         /\ storage' = d.storage
         /\ checkout' = [checkout EXCEPT
                           !.success = d.success, !.error = d.error,
                           !.shippingAddress = d.shippingAddress,
                           !.loading = d.loading, !.requests = Tail(@)]
         /\ last' = [op |-> "checkoutSettled", id |-> 0, qty |-> 0,
                     err |-> r.ret.err]
  /\ prev' = items
  /\ UNCHANGED << detail, snap, orderData >>

\* the products and addresses offered while the checkout is followed
CheckoutProducts == {1, 2}

CheckoutAddresses == Addresses \ {<< >>}

WithinCheckoutQty(its) == \A i \in 1..Len(its) : its[i].quantity <= MaxCheckoutQty

\* the order data drawn for a cart: what the checkout would send, and, for
\* the carts of at most one line item, every user and address
InputData(its) ==
  IF Len(its) <= 1
  THEN [userId : Users, products : {OrderItemsOf(its)}, shippingAddress : Addresses]
  ELSE {[userId |-> "user123", products |-> OrderItemsOf(its),
         shippingAddress |-> << "1", " ", "O", "a", "k", " ", "A", "v", "e" >>]}

Init ==
  /\ items = initialState
  /\ prev = initialState
  /\ last = NoOp
  /\ storage = Absent
  /\ checkout = InitialCheckout
  /\ snap = NoSnap
  /\ orderData = NoData
  /\ orders = {}
  /\ ret = NoRet
  /\ detail = InitialDetail

Next ==
  \/ \E p \in Products, q \in QtyInputs : AddItem(p, q)
  \/ \E p \in Products : HandleAddToCart(p)
  \/ \E p \in Products : RemoveItem(p)
  \/ \E p \in Products, q \in QtyInputs : SetQuantity(p, q)
  \/ ClearCart
  \/ Reload

Spec == Init /\ [][Next]_vars

\* pricing and order creation, applied to a drawn cart and order data
InitOrder ==
  /\ items \in {CartOf(c) : c \in InputCarts}
  /\ prev = initialState
  /\ last = NoOp
  /\ storage = IF items = initialState THEN Absent ELSE saveState([items |-> items])
  /\ checkout = InitialCheckout
  /\ snap = NoSnap
  /\ orderData \in InputData(items)
  /\ orders = {}
  /\ ret = NoRet
  /\ detail = InitialDetail

NextOrder ==
  \/ CalculateTotal
  \/ CalculateSubtotal
  \/ CreateOrder

SpecOrder == InitOrder /\ [][NextOrder]_vars

\* a snapshot of a drawn cart, and a change of what was returned
InitSnapshot ==
  /\ items \in {CartOf(c) : c \in InputCarts}
  /\ prev = initialState
  /\ last = NoOp
  /\ storage = IF items = initialState THEN Absent ELSE saveState([items |-> items])
  /\ checkout = InitialCheckout
  /\ snap = NoSnap
  /\ orderData = NoData
  /\ orders = {}
  /\ ret = NoRet
  /\ detail = InitialDetail

NextSnapshot ==
  \/ Snapshot
  \/ \E p \in ProductIds : PushToSnapshot(p)
  \/ \E k \in 1..MaxItems : RemoveFromSnapshot(k)
  \/ \E k \in 1..MaxItems, q \in 0..MaxLineQty : EditSnapshotEntry(k, q)

SpecSnapshot == InitSnapshot /\ [][NextSnapshot]_vars

\* the order API called again and again on one collection
NextStore ==
  \/ \E data \in StoreData : CreateOrderCall(data)
  \/ \E orderId \in OrderIds, status \in Statuses, accepted \in BOOLEAN :
       UpdateOrderStatus(orderId, status, accepted)

SpecStore == Init /\ [][NextStore]_vars

\* orders are created, one of them is shipped, and the collection is read
NextQuery ==
  \/ \E data \in QueryData : CreateOrderCall(data)
  \/ \E orderId \in OrderIds : UpdateOrderStatus(orderId, "shipped", TRUE)
  \/ \E orderId \in OrderIds, fetched \in BOOLEAN : GetOrder(orderId, fetched)
  \/ \E userId \in QueryUsers, fetched \in BOOLEAN :
       GetUserOrders(userId, fetched)

SpecQuery == Init /\ [][NextQuery]_vars

\* orders are stored, then an OrderDetail is mounted and given one order id
\* after another while its reads settle in any order
NextDetail ==
  \/ \E data \in StoreData : CreateOrderCall(data) /\ detail = InitialDetail
  \/ \E orderId \in DetailIds \cup {NoOrderId} : SetOrderId(orderId)
  \/ \E k \in 1..MaxInFlight, fetched \in BOOLEAN : SettleGetOrder(k, fetched)

SpecDetail == Init /\ [][NextDetail]_vars

\* the cart and the checkout side by side: the cart operations go on while
\* the order is being stored
NextCheckout ==
  \/ \E p \in CheckoutProducts :
       HandleAddToCart(p) /\ WithinCheckoutQty(items')
  \/ \E p \in CheckoutProducts : RemoveItem(p)
  \/ \E p \in CheckoutProducts, q \in 0..MaxCheckoutQty : SetQuantity(p, q)
  \/ ClearCart
  \/ \E a \in CheckoutAddresses : SetShippingAddress(a)
  \/ HandleCheckout
  \/ \E stored \in BOOLEAN : SettleCheckout(stored)

SpecCheckout == Init /\ [][NextCheckout]_vars

(***************************************************************************)
(* Properties of the cart (under Spec).                                    *)
(***************************************************************************)
QtyOf(its, p) == IF HasItem(its, p) THEN its[ItemIndex(its, p)].quantity ELSE 0

Without(its, p) == SelectSeq(its, LAMBDA it : it.id # p)

CountOf(its, p) == Cardinality({i \in 1..Len(its) : its[i].id = p})

LineItemOf(p, q) ==
  [id |-> p, title |-> Catalog(p).title, price |-> Catalog(p).price, quantity |-> q]

\* C1: in every reachable state of the cart no two line items share a
\* productId.
C1_UniqueProductIds ==
  \A i, j \in 1..Len(items) : i # j => items[i].id # items[j].id

\* an add has just merged into an existing entry of a cart of several items
C1_Witness ==
  /\ last.op \in {"addItem", "handleAddToCart"}
  /\ HasItem(prev, last.id)
  /\ Len(items) = 3
  /\ QtyOf(items, last.id) = QtyOf(prev, last.id) + last.qty
  /\ last.qty > 0

C3_AddMerges ==
  (last.op \in {"addItem", "handleAddToCart"} /\ last.qty > 0) =>
    LET p == last.id
    IN  /\ CountOf(items, p) = 1
        /\ IF HasItem(prev, p)
           THEN /\ Len(items) = Len(prev)
                /\ \A i \in 1..Len(prev) :
                     items[i] = IF prev[i].id = p
                                THEN [prev[i] EXCEPT !.quantity = @ + last.qty]
                                ELSE prev[i]
           ELSE items = Append(prev, LineItemOf(p, last.qty))
        /\ \A b \in 1..MaxQty :
             LET two == addItem(items, Catalog(p), b)
             IN  /\ CountOf(two, p) = 1
                 /\ QtyOf(two, p) = QtyOf(prev, p) + last.qty + b
                 /\ Without(two, p) = Without(prev, p)
                 /\ Len(two) = Len(items)

\* addItem(p, 3) has just followed addItem(p, 2): one entry of p, quantity 5
C3_Witness ==
  /\ last = [op |-> "addItem", id |-> 2, qty |-> 3, err |-> "none"]
  /\ QtyOf(prev, 2) = 2
  /\ QtyOf(items, 2) = 5
  /\ CountOf(items, 2) = 1
  /\ Len(items) = 2

\* C4: setQuantity(p, q) with q <= 0 leaves the cart as removeItem(p) would;
\* with q > 0 and p in the cart it sets the quantity of p to q and changes
\* nothing else (the other items, their order, the number of entries).
C4_SetQuantity ==
  (last.op = "setQuantity") =>
    LET p == last.id
    IN  IF last.qty <= 0
        THEN /\ items = removeItem(prev, p)
             /\ items = Without(prev, p)
        ELSE HasItem(prev, p) =>
               /\ Len(items) = Len(prev)
               /\ \A i \in 1..Len(prev) :
                    items[i] = IF prev[i].id = p
                               THEN [prev[i] EXCEPT !.quantity = last.qty]
                               ELSE prev[i]

\* the - button has been pressed on an item of quantity 1 in a cart of three
C4_Witness ==
  /\ last.op = "setQuantity"
  /\ last.qty = 0
  /\ QtyOf(prev, last.id) = 1
  /\ Len(prev) = 3
  /\ Len(items) = 2

\* C5: addItem with a negative quantity leaves the cart unchanged, whether or
\* not the productId is in the cart.
C5_NegativeAddIsNoOp ==
  (last.op = "addItem" /\ last.qty < 0) => items = prev

\* addItem(p, -1) has been called for a product that is in the cart
C5_Witness ==
  /\ last.op = "addItem"
  /\ last.qty < 0
  /\ HasItem(prev, last.id)
  /\ QtyOf(items, last.id) >= 1

NegativeQuantityGiven ==
  last.op \in {"addItem", "setQuantity"} /\ last.qty < 0

\* C6 (as stated): a negative quantity passed to a cart operation is reported
\* to the caller as a ValidationError in the same call.
C6_NegativeQuantityReported ==
  NegativeQuantityGiven => last.err = "ValidationError"

\* C6 (amended): a negative quantity passed to a cart operation is reported
\* to no one: addItem leaves the cart unchanged and setQuantity removes the
\* item, and neither raises an error.
C6_NegativeQuantitySilent ==
  NegativeQuantityGiven =>
    /\ last.err = "none"
    /\ last.op = "addItem" => items = prev
    /\ last.op = "setQuantity" => items = Without(prev, last.id)

\* setQuantity(p, -1) has removed an item of the cart without an error
C6_Witness ==
  /\ last.op = "setQuantity"
  /\ last.qty < 0
  /\ HasItem(prev, last.id)
  /\ ~HasItem(items, last.id)
  /\ last.err = "none"

(***************************************************************************)
(* Properties of pricing and order creation (under SpecOrder).  The        *)
(* specified amounts are computed in whole cents.                          *)
(***************************************************************************)
\* the sum of unitPrice x quantity, in cents
RECURSIVE ExactSubtotalCents(_)
ExactSubtotalCents(its) ==
  IF its = << >> THEN 0
  ELSE its[1].price * its[1].quantity + ExactSubtotalCents(Tail(its))

\* subtotal + subtotal x 0.085, rounded half-up to the cent, in cents
HalfUpTotalCents(subtotalCents) == (subtotalCents * 1085 + 500) \div 1000

\* the Number written with two decimals
Amount(cents) == NumRatio(cents, 100)

\* C7: the total of a cart is its subtotal plus tax at 0.085, rounded to
\* cents with round-half-up.
C7_TotalRoundsHalfUp ==
  (ret.op = "calculateTotal") =>
    ret.total = Amount(HalfUpTotalCents(ExactSubtotalCents(items)))

Created == ret.op = "createOrder" /\ ret.err = "none"

C9_TotalPriceIsRoundedSum ==
  Created =>
    ret.order.totalPrice = Amount(ExactSubtotalCents(ret.order.products))

\* the order of 10.50 x 3 and 25.00 x 2 has been created with total 81.50
C9_Witness ==
  /\ Created
  /\ Len(ret.order.products) = 2
  /\ ret.order.products[1].price = 1050 /\ ret.order.products[1].quantity = 3
  /\ ret.order.products[2].price = 2500 /\ ret.order.products[2].quantity = 2
  /\ ret.order.totalPrice = Amount(8150)

InvalidOrderData(data) ==
  \/ data.products = << >>
  \/ Trim(data.shippingAddress) = << >>
  \/ data.userId = NoUser

\* C10: createOrder fails with a ValidationError, and hands nothing to the
\* persistence collaborator, whenever the items list is empty, the shipping
\* address is blank or whitespace-only, or the userId is absent.
C10_CreateOrderValidates ==
  (ret.op = "createOrder" /\ InvalidOrderData(orderData)) =>
    /\ ret.err = "ValidationError"
    /\ ret.handed = << >>
    /\ orders = {}

(***************************************************************************)
(* Properties of the checkout (under SpecCheckout).                        *)
(***************************************************************************)
Settled == last.op = "checkoutSettled"

\* the line items of a cart are all among the products of an order
ContainsItems(order, its) ==
  \A i \in 1..Len(its) :
    \E k \in 1..Len(order.products) : order.products[k] = OrderItemsOf(its)[i]

\* C11: a checkout clears a non-empty cart only after the order built from
\* it has been stored, and when storing fails the cart keeps its items.
C11_ClearedOnlyAfterStored ==
  Settled =>
    /\ (prev # << >> /\ items = << >>) =>
         /\ ret.err = "none"
         /\ ret.order \in orders
         /\ ContainsItems(ret.order, prev)
    /\ ret.err # "none" => items = prev

\* C12: when persisting the order fails during checkout, an error is shown to
\* the user and no success message is shown.
C12_FailureIsShown ==
  (Settled /\ ret.err # "none") =>
    /\ checkout.error # ""
    /\ checkout.success.text = ""

(***************************************************************************)
(* Properties of the order API (under SpecStore, C14 under SpecOrder).     *)
(***************************************************************************)
IdsOf(store) == {d.orderId : d \in store}

C14_CreatedOrderIsPending ==
  Created =>
    /\ ret.order.status = "pending"
    /\ ret.order.userId = orderData.userId
    /\ ret.order.products = orderData.products
    /\ ret.order.shippingAddress = orderData.shippingAddress
    /\ orders = {ret.order}

\* the order of 99.99 x 1 and 24.99 x 2 for user123 has been returned
C14_Witness ==
  /\ Created
  /\ ret.order.userId = "user123"
  /\ Len(ret.order.products) = 2
  /\ ret.order.products[1].name = "Wireless Headphones"
  /\ ret.order.products[2].quantity = 2
  /\ Len(ret.order.shippingAddress) = 9
  /\ ret.order.status \in Statuses

Updated == ret.op = "updateOrderStatus"

\* the changes of status the order lifecycle lists
Lifecycle ==
  {<< "pending", "confirmed" >>, << "confirmed", "shipped" >>,
   << "shipped", "delivered" >>, << "pending", "cancelled" >>,
   << "confirmed", "cancelled" >>}

\* C15 (as stated): updateOrderStatus changes the status of an order only
\* along pending -> confirmed -> shipped -> delivered or from pending or
\* confirmed to cancelled; a delivered or cancelled order is never changed.
C15_StatusFollowsLifecycle ==
  (Updated /\ ret.err = "none" /\ ret.before # ret.status) =>
    << ret.before, ret.status >> \in Lifecycle

\* C15 (amended): updateOrderStatus(orderId, s) checks no lifecycle: whenever
\* the order is stored and the write is accepted it succeeds and leaves the
\* order with status s, whatever the status was, so a delivered or cancelled
\* order can be set back to pending; it fails only when the order is not
\* stored or the write is refused.
C15_AnyStatusIsStored ==
  Updated =>
    /\ ret.err = "none" <=> (ret.accepted /\ ret.before \in Statuses)
    /\ ret.err = "none" => StatusOf(orders, ret.orderId) = ret.status
    /\ ret.err # "none" => StatusOf(orders, ret.orderId) = ret.before

\* a delivered order has been set back to pending
C15_Witness ==
  /\ Updated
  /\ ret.err = "none"
  /\ ret.before = "delivered"
  /\ ret.status = "pending"
  /\ StatusOf(orders, ret.orderId) = "pending"

\* the document with every field but the status
Frame(d) ==
  [orderId |-> d.orderId, userId |-> d.userId, products |-> d.products,
   totalPrice |-> d.totalPrice, createdAt |-> d.createdAt,
   shippingAddress |-> d.shippingAddress]

\* C16: updateOrderStatus(orderId, s) changes only the status field of the
\* stored order: its products, totalPrice, userId, createdAt and
\* shippingAddress stay as they were, every other order stays as it was, no
\* order is created or deleted, and the call returns true on success.
C16_OnlyStatusChanges ==
  [][(ret'.op = "updateOrderStatus") =>
       /\ IdsOf(orders') = IdsOf(orders)
       /\ Cardinality(orders') = Cardinality(orders)
       /\ \A d \in orders :
            LET e == DocOf(orders', d.orderId)
            IN  /\ Frame(e) = Frame(d)
                /\ d.orderId # ret'.orderId => e = d
       /\ ret'.err = "none" =>
            /\ ret'.result = TRUE
            /\ DocOf(orders', ret'.orderId).status = ret'.status
       /\ ret'.err # "none" => orders' = orders]_vars

\* one of two stored orders has been moved to shipped
C16_Witness ==
  /\ Updated
  /\ ret.err = "none"
  /\ ret.result = TRUE
  /\ ret.status = "shipped"
  /\ ret.before = "pending"
  /\ Cardinality(orders) = 2
  /\ \E d \in orders : d.orderId # ret.orderId /\ d.status = "pending"

(***************************************************************************)
(* Properties of the orders next to the cart (under SpecCheckout).         *)
(***************************************************************************)
CartOps == {"addItem", "handleAddToCart", "removeItem", "setQuantity", "clear"}

\* C17: an order record is independent of the live cart: once createOrder
\* has returned, no cart operation changes the items or the total of the
\* order, neither of the stored one nor of the returned one.
C17_OrderIndependentOfCart ==
  [][(last'.op \in CartOps) =>
       /\ \A o \in orders :
            \E e \in orders' :
              /\ e.orderId = o.orderId
              /\ e.products = o.products
              /\ e.totalPrice = o.totalPrice
       /\ Cardinality(orders') = Cardinality(orders)
       /\ ret' = ret]_vars

\* after the order was stored and the cart cleared, a product has been added
\* to the cart again, and the stored order still lists what was ordered
C17_Witness ==
  /\ Created
  /\ ret.order \in orders
  /\ last.op \in CartOps
  /\ items # << >>
  /\ items # prev
  /\ ret.order.products # OrderItemsOf(items)

(***************************************************************************)
(* Properties of snapshots of the cart (C18 under SpecSnapshot, C19 under  *)
(* Spec).                                                                  *)
(***************************************************************************)
SnapshotEdits == {"snapshotPush", "snapshotRemove", "snapshotEdit"}

\* C18: snapshot() returns a copy: adding, removing or editing an entry of
\* the returned items never changes what the live CartStore holds.
C18_SnapshotIsACopy ==
  (last.op \in SnapshotEdits) =>
    /\ items = prev
    /\ storage = IF items = initialState THEN Absent ELSE saveState([items |-> items])

\* the quantity of an entry of the snapshot of a cart of two items has been
\* changed, and the snapshot now differs from the cart
C18_Witness ==
  /\ last.op = "snapshotEdit"
  /\ Len(prev) = 2
  /\ snap.items # items
  /\ QtyOf(snap.items, last.id) = last.qty
  /\ QtyOf(items, last.id) # last.qty

C20_SetQuantityIdempotent ==
  /\ \A p \in Products, n \in QtyInputs :
       LET once == handleQuantityChange(items, p, n).items
       IN  handleQuantityChange(once, p, n).items = once
  /\ last.op = "setQuantity" =>
       handleQuantityChange(items, last.id, last.qty).items = items

\* setQuantity(p, 3) has been called on an item of quantity 1
C20_Witness ==
  /\ last.op = "setQuantity"
  /\ last.qty = 3
  /\ QtyOf(prev, last.id) = 1
  /\ QtyOf(items, last.id) = 3
  /\ Len(items) = 2

\* the positions of the line items of products other than p, in order
RECURSIVE OthersFrom(_, _, _)
OthersFrom(its, p, i) ==
  IF i > Len(its) THEN << >>
  ELSE (IF its[i].id = p THEN << >> ELSE << its[i] >>) \o OthersFrom(its, p, i + 1)

\* C21: removeItem(p) removes the line item of p and leaves every other line
\* item, and their order, unchanged; when p is not in the cart the cart is
\* unchanged and no error is reported.
C21_RemoveItemFrame ==
  (last.op = "removeItem") =>
    /\ ~HasItem(items, last.id)
    /\ items = OthersFrom(prev, last.id, 1)
    /\ Len(items) = Len(prev) - CountOf(prev, last.id)
    /\ ~HasItem(prev, last.id) => items = prev
    /\ last.err = "none"

\* the middle item of a cart of three has been removed
C21_Witness ==
  /\ last.op = "removeItem"
  /\ Len(prev) = 3
  /\ prev[2].id = last.id
  /\ items = << prev[1], prev[3] >>

(***************************************************************************)
(* Further properties of the order API (C22, C24, C25 under SpecStore,     *)
(* C23 under SpecOrder).                                                   *)
(***************************************************************************)
\* C22 (as stated): createOrder only computes and returns the order and does
\* not write to the order store: the set of stored orders is the same
\* before and after the call.
C22_CreateOrderWritesNothing ==
  [][(ret'.op = "createOrder") => orders' = orders]_vars

\* C22 (amended): createOrder itself writes the order it builds to the order
\* store and returns it only when the write is stored: after a successful call
\* the stored orders are those of before, without any of the same orderId,
\* plus the returned order; after a failed call they are unchanged.
C22_CreateOrderStores ==
  [][(ret'.op = "createOrder") =>
       IF ret'.err = "none"
       THEN /\ ret'.order \in orders'
            /\ ret'.handed = << ret'.order >>
            /\ orders' \ {ret'.order} =
                 {d \in orders : d.orderId # ret'.order.orderId}
       ELSE orders' = orders]_vars

\* the first order has been written to the empty store by createOrder
C22_Witness ==
  /\ Created
  /\ orders = {ret.order}
  /\ ret.order.orderId \in OrderIds

\* C23: when the write to the order store fails, createOrder fails with that
\* same error and returns no order; the error is not swallowed.
C23_WriteFailureIsThrown ==
  (ret.op = "createOrder" /\ ret.rejected # "none") =>
    /\ ret.err = ret.rejected
    /\ "order" \notin DOMAIN ret
    /\ orders = {}

\* the write of the order of two products has been rejected
C23_Witness ==
  /\ ret.op = "createOrder"
  /\ ret.rejected = "Error"
  /\ ret.err = "Error"
  /\ Len(ret.handed) = 1
  /\ Len(ret.handed[1].products) = 2

(***************************************************************************)
(* Reading the orders back (C24, C25 under SpecQuery).                     *)
(***************************************************************************)
\* first part of C24: a getOrder that resolves returns null (the empty result)
\* when no order is stored under the id and the stored order otherwise
C24_GetOrderReturnsStored ==
  (ret.op = "getOrder" /\ ret.err = "none") =>
    IF HasDoc(orders, ret.orderId)
    THEN ret.result = << DocOf(orders, ret.orderId) >>
    ELSE ret.result = << >>

\* second part of C24: a getOrder of the id of the order a createOrder has
\* just returned gives an order equal to the returned one
C24_GetOrderAfterCreate ==
  [][(/\ ret.op = "createOrder" /\ ret.err = "none"
      /\ ret'.op = "getOrder" /\ ret'.err = "none"
      /\ ret'.orderId = ret.order.orderId)
     => ret'.result = << ret.order >>]_vars

\* C24: getOrder returns null when no order is stored under the id and the
\* stored order otherwise, and after a successful createOrder it returns an
\* order equal to the one createOrder returned
C24_GetOrder == []C24_GetOrderReturnsStored /\ C24_GetOrderAfterCreate

C24_Witness ==
  /\ ret.op = "getOrder"
  /\ ret.err = "none"
  /\ Len(ret.result) = 1
  /\ ret.result[1].createdAt = 1
  /\ \E orderId \in OrderIds : ~HasDoc(orders, orderId)

\* C25: a getUserOrders that resolves returns exactly the stored orders of
\* that user, each once, from the newest createdAt to the oldest, and the
\* empty list when the user has none
C25_UserOrdersNewestFirst ==
  (ret.op = "getUserOrders" /\ ret.err = "none") =>
    /\ {ret.result[i] : i \in 1..Len(ret.result)} = Where(orders, ret.userId)
    /\ Len(ret.result) = Cardinality(Where(orders, ret.userId))
    /\ \A i, j \in 1..Len(ret.result) :
         i < j => ret.result[i].createdAt >= ret.result[j].createdAt
    /\ (Where(orders, ret.userId) = {} => ret.result = << >>)

C25_Witness ==
  /\ ret.op = "getUserOrders"
  /\ ret.err = "none"
  /\ Len(ret.result) = 2
  /\ ret.result[1].createdAt > ret.result[2].createdAt

(***************************************************************************)
(* The checkout and the cart side by side (C26 to C29 under SpecCheckout). *)
(***************************************************************************)
\* C26: the total the checkout screen shows for the cart when Place Order is
\* clicked (calculateTotal) equals the totalPrice of the order handleCheckout
\* creates from that cart
C26_ShownTotalIsOrderTotal ==
  (last.op = "handleCheckout" /\ checkout.requests # << >>) =>
    calculateTotal(prev).total = Head(checkout.requests).totalPrice

\* C27: when a checkout has completed with its order created, every item
\* the cart held just before the completion that is not a product of the
\* created order is still in the cart
C27_ItemsAddedInFlightAreKept ==
  (Settled /\ ret.err = "none") =>
    \A i \in 1..Len(prev) :
      (\A k \in 1..Len(ret.order.products) :
         ret.order.products[k].productId # ToString(prev[i].id))
      => \E j \in 1..Len(items) : items[j] = prev[i]

\* C28: at most one createOrder call of the checkout is in flight, and one is
\* in flight exactly while loading is true: no click on Place Order starts a
\* second call before the first has completed
C28_OneOrderInFlight ==
  /\ Len(checkout.requests) <= 1
  /\ checkout.loading <=> checkout.requests # << >>

\* a call is in flight while the cart has items and the address is filled in
C28_Witness ==
  /\ checkout.loading
  /\ Len(checkout.requests) = 1
  /\ Len(items) > 0
  /\ Trim(checkout.shippingAddress) # << >>
  /\ last.op # "handleCheckout"

C30_ShownOrderIsCurrent ==
  (/\ detail.requests = << >>
   /\ detail.orderId # NoOrderId
   /\ ~detail.loading
   /\ detail.error = ""
   /\ detail.order # << >>)
  => detail.order[1].orderId = detail.orderId

====
